---------------------------- MODULE Spec2Model ----------------------------
(***************************************************************************)
(* Model of the custom drivers of this repository.  Each driver is a       *)
(* script whose remote procedures (validate, get_status) start requests    *)
(* on the host platform (D.device.sendSSHCommand, D.device.http.post/get)  *)
(* and report through D.success / D.failure.  JavaScript runs every        *)
(* callback to completion, so one action is one procedure call or one      *)
(* callback, including the promise handlers it resolves.  D.success and    *)
(* D.failure are ordinary calls: they are recorded and return to the       *)
(* caller.  One behaviour is one run of one procedure (proc).              *)
(***************************************************************************)
EXTENDS Naturals, Sequences, FiniteSets, TLC

VARIABLES
    proc,        \* the remote procedure this run executes
    pc,          \* "idle" before the procedure is called, then its phase
    successes,   \* the D.success calls made, in order, with their argument
    failures,    \* the error types D.failure has been called with
    inflight,    \* requests handed to the platform and not yet answered
    returned,    \* the answers the platform has delivered to a callback
    table,       \* the records inserted into the driver's table, in order
    ssh_command, \* the command field of the shared SSH options object
    arrayFn,     \* execute_all: the functions to run
    length,      \* execute_all: var length
    results,     \* execute_all: var results
    finished,    \* execute_all: var finished
    loopIdx,     \* execute_all: position of arrayFn.forEach (1-based)
    waiting,     \* execute_all: functions called whose completion is due
    joinCalls,   \* execute_all: number of calls of the final callback
    count,       \* Windows IP latency driver: var count of get_status
    sent,        \* ESXi driver: the SOAP requests posted, in order
    resolved,    \* ESXi driver: the values the promises were resolved with
    sessionToken,  \* PowerVault driver: var sessionToken
    recentToken,   \* PowerVault driver: the 'x-auth-token' of the most
                   \* recent response that had one (history)
    controllers    \* PowerVault driver: the promises of getControllerInfo
                   \* and getDriveInfo, per member of /redfish/v1/Storage

common == <<successes, failures, inflight, returned, table, ssh_command>>
join   == <<arrayFn, length, results, finished, loopIdx, waiting, joinCalls>>
\* the variables the route driver and execute_all leave alone
dell   == <<sessionToken, recentToken, controllers>>
others == <<count, sent, resolved, dell>>
esxi   == <<sent, resolved>>
vars   == <<proc, pc, common, join, count, esxi, dell>>

----------------------------------------------------------------------------
(* Bounds of the model. *)

\* longest array handed to execute_all by the generic caller
MaxFn == 3
\* most lines in the output of one netstat command
MaxLines == 2
\* most services in one RetrieveProperties answer
MaxServices == 2
\* most Members of /redfish/v1/Storage, most drives of all its controllers
MaxControllers == 2
MaxDrives == 1

----------------------------------------------------------------------------
(* D.success / D.failure: what the host platform is told. *)

NoTable == <<>>

\* D.success() without argument, D.success(table) with the table as it is
SuccessCall(withTable, rows) == [withTable |-> withTable, rows |-> rows]

\* D.failure() of the route driver passes no error type
NO_ERROR_TYPE == "undefined"

NumSuccess == Len(successes)
Failed == failures # {}

----------------------------------------------------------------------------
(* FreeBSD route driver (examples/ssh/freebsd_route.js) *)

validate_cmd == "netstat -r -n"
route_v4_cmd == "netstat -4 -r -n | tail -n +5"
route_v6_cmd == "netstat -6 -r -n | tail -n +5"

\* the arrayFn of get_status: route("ip_v4", ...), route("ip_v6", ...)
RouteFns == <<"ip_v4", "ip_v6">>
RouteCmd(version) == IF version = "ip_v4" THEN route_v4_cmd ELSE route_v6_cmd

\* first column of a route line (route_data[0]); "" is the empty last line
Destinations == {"", "default", "10.0.0.0"}

\* out.split("\n") of a string: at least one line; a line is represented
\* by its first column
LineSeqs == UNION {[1..n -> Destinations] : n \in 1..MaxLines}

\* what sendSSHCommand may hand to its callback: output text (split into
\* lines here) or no output at all; with or without an error
NoOutput == <<>>
SshAnswers ==
    [err : BOOLEAN, hasOut : {TRUE}, lines : LineSeqs]
        \cup [err : {TRUE}, hasOut : {FALSE}, lines : {NoOutput}]

\* (mutant) the record id without the version prefix
RouteRecordIdNoVersion(version, dest) == dest

\* record id of route(): version + ">" + route_data[0]
RouteRecordId(version, dest) == version \o ">" \o dest

\* lines.forEach(... table.insertRecord ...) of route()
RouteInsert(tbl, version, lines) ==
    tbl \o [k \in 1..Len(lines) |->
              [id |-> RouteRecordId(version, lines[k]),
               row |-> lines[k],
               from |-> version]]

----------------------------------------------------------------------------
(* execute_all(arrayFn, callback) *)

\* the generic caller's functions call their callback at once or later
FnKinds == {"sync", "async"}

\* (mutant) the counter compared before it is incremented
JoinReachedPostIncrement(fin, len) == fin = len

\* if (++finished == length)
JoinReached(fin, len) == fin + 1 = len

\* the final callback: the generic caller's only counts; get_status of the
\* route driver calls D.success(table)
FinalCallback(tbl) ==
    /\ joinCalls' = joinCalls + 1
    /\ successes' = IF proc = "route_get_status"
                    THEN Append(successes, SuccessCall(TRUE, tbl))
                    ELSE successes

\* function (result) { results[index] = result; if (++finished == length)
\* callback(results) }
FnCompletion(index, result, tbl) ==
    /\ results' = [results EXCEPT ![index] = result]
    /\ finished' = finished + 1
    /\ IF JoinReached(finished, length)
       THEN FinalCallback(tbl)
       ELSE UNCHANGED <<joinCalls, successes>>

\* execute_all up to arrayFn.forEach
ExecuteAllEnter(fns) ==
    /\ arrayFn' = fns
    /\ length' = Len(fns)
    /\ results' = [i \in 1..Len(fns) |-> "empty"]
    /\ finished' = 0
    /\ loopIdx' = 1
    /\ pc' = "forEach"
    /\ IF Len(fns) = 0
       THEN FinalCallback(table)
       ELSE UNCHANGED <<joinCalls, successes>>

\* a call of execute_all by a caller with functions of its own
ExecuteAll ==
    /\ proc = "execute_all" /\ pc = "idle"
    /\ \E n \in 0..MaxFn : \E fns \in [1..n -> FnKinds] : ExecuteAllEnter(fns)
    /\ UNCHANGED <<proc, failures, inflight, returned, table, ssh_command,
                   waiting>>
    /\ UNCHANGED others

\* one iteration of arrayFn.forEach: fn(function (result) {...})
ForEachFn ==
    /\ pc = "forEach" /\ loopIdx <= length
    /\ loopIdx' = loopIdx + 1
    /\ LET fn == arrayFn[loopIdx] IN
       CASE fn = "sync" ->
              /\ FnCompletion(loopIdx, "r", table)
              /\ UNCHANGED <<waiting, inflight, ssh_command>>
         [] fn = "async" ->
              /\ waiting' = waiting \cup {loopIdx}
              /\ UNCHANGED <<results, finished, joinCalls, successes,
                             inflight, ssh_command>>
         [] OTHER ->  \* route(version, cmd): exec_command(cmd, ...)
              /\ ssh_command' = RouteCmd(fn)
              /\ inflight' = inflight \cup
                     {[tag |-> fn, index |-> loopIdx, command |-> RouteCmd(fn)]}
              /\ UNCHANGED <<results, finished, joinCalls, successes, waiting>>
    /\ UNCHANGED <<proc, pc, failures, returned, table, arrayFn, length>>
    /\ UNCHANGED others

\* arrayFn.forEach has returned, and with it execute_all
ForEachEnd ==
    /\ pc = "forEach" /\ loopIdx > length
    /\ pc' = "running"
    /\ UNCHANGED <<proc, common, join>>
    /\ UNCHANGED others

\* a function of the generic caller completes later
FnCompletes ==
    /\ proc = "execute_all" /\ pc = "running"
    /\ \E i \in waiting :
         /\ waiting' = waiting \ {i}
         /\ FnCompletion(i, "r", table)
    /\ UNCHANGED <<proc, pc, failures, inflight, returned, table, ssh_command,
                   arrayFn, length, loopIdx>>
    /\ UNCHANGED others

----------------------------------------------------------------------------
(* FreeBSD route driver: procedures and SSH callback *)

\* D.device.sendSSHCommand(options, callback) is handed the shared options
\* object itself, not a copy: the command it runs is the one the object
\* held at the call, or the one it holds when the request is carried out
SshExecuted(req, shared) == {req.command, shared}

\* get_status(): execute_all([route("ip_v4", ..), route("ip_v6", ..)], ...)
RouteGetStatus ==
    /\ proc = "route_get_status" /\ pc = "idle"
    /\ ExecuteAllEnter(RouteFns)
    /\ UNCHANGED <<proc, failures, inflight, returned, table, ssh_command,
                   waiting>>
    /\ UNCHANGED others

\* validate(): exec_command(validate_cmd, function () { D.success() })
RouteValidate ==
    /\ proc = "route_validate" /\ pc = "idle"
    /\ pc' = "running"
    /\ ssh_command' = validate_cmd
    /\ inflight' = inflight \cup
           {[tag |-> "validate", index |-> 0, command |-> validate_cmd]}
    /\ UNCHANGED <<proc, successes, failures, returned, table, join>>
    /\ UNCHANGED others

\* the callback exec_command gives to sendSSHCommand, with the callback
\* exec_command was given: if (err) D.failure(); callback(out.split("\n"))
ExecCommandCallback ==
    /\ proc \in {"route_get_status", "route_validate"} /\ pc = "running"
    /\ \E req \in inflight : \E ans \in SshAnswers :
         \E ran \in SshExecuted(req, ssh_command) :
         /\ inflight' = inflight \ {req}
         /\ returned' = returned \cup
                            {[tag |-> req.tag, ans |-> ans, ran |-> ran]}
         /\ failures' = IF ans.err THEN failures \cup {NO_ERROR_TYPE}
                        ELSE failures
         /\ IF ~ans.hasOut
            THEN \* out.split throws: the callback ends here
                 UNCHANGED <<table, successes, results, finished, joinCalls>>
            ELSE IF req.tag = "validate"
            THEN /\ successes' = Append(successes, SuccessCall(FALSE, NoTable))
                 /\ UNCHANGED <<table, results, finished, joinCalls>>
            ELSE /\ table' = RouteInsert(table, req.tag, ans.lines)
                 /\ FnCompletion(req.index, "undefined", table')
    /\ UNCHANGED <<proc, pc, ssh_command, arrayFn, length, loopIdx, waiting>>
    /\ UNCHANGED others

----------------------------------------------------------------------------
(* Windows IP latency driver *)

pktno == "2"
ipAddresses == <<"8.8.8.8", "1.1.1.1", "192.168.0.1", "192.168.0.2",
                 "192.168.0.3">>

\* D.crypto.hash(ipAddress, "sha256", null, "hex") of the configured
\* addresses
Sha256Hex(ip) ==
    CASE ip = "8.8.8.8" ->
           "838c4c2573848f58e74332341a7ca6bc5cd86a8aec7d644137d53b4d597f10f5"
      [] ip = "1.1.1.1" ->
           "f1412386aa8db2579aff2636cb9511cacc5fd9880ecab60c048508fbe26ee4d9"
      [] ip = "192.168.0.1" ->
           "37d7a80604871e579850a658c7add2ae7557d0c6abcc9b31ecddc4424207eba3"
      [] ip = "192.168.0.2" ->
           "3779952acebd8a9570f9b2d499317c4828ed4dadf8347f80f7da9b542cb8d043"
      [] ip = "192.168.0.3" ->
           "361de238ea5d0b9bc28aaf0507a0b4dcef1fc31f7adadfe0dac104f04040b403"

\* var recordId = D.crypto.hash(...).slice(0, 50)
PingRecordId(ip) == SubSeq(Sha256Hex(ip), 1, 50)

\* var command = "ping -n " + pktno + " " + ipAddress
PingCommand(ip) == "ping -n " \o pktno \o " " \o ip

\* what sendSSHCommand may hand to resultCallback: an error (with its
\* code) or the text of ping, in which "Average = <n>ms" is there or not
\* (ping prints no averages when no reply came) and "Packets: Sent = ..,
\* Received = .., Lost = <n>" is there or not; "none" is no match
PingAnswers ==
    [err : {"code 5", "code 255"}, average : {"none"}, lost : {"none"}]
        \cup [err : {"none"}, average : {"none", "12"}, lost : {"none", "0"}]

\* checkSshError(err): both D.failure calls are made for code 5
checkSshError(err) ==
    (IF err = "code 5" THEN {"AUTHENTICATION_ERROR"} ELSE {})
        \cup {"GENERIC_ERROR"}

\* get_status(): ipAddresses.forEach( ... sendSSHCommand(sshCommandOptions,
\* resultCallback))
PingGetStatus ==
    /\ proc = "ping_get_status" /\ pc = "idle"
    /\ pc' = "running"
    /\ count' = 0
    /\ ssh_command' = PingCommand(ipAddresses[Len(ipAddresses)])
    /\ inflight' = {[tag |-> ipAddresses[i], index |-> i,
                     command |-> PingCommand(ipAddresses[i])] :
                        i \in 1..Len(ipAddresses)}
    /\ UNCHANGED <<proc, successes, failures, returned, table, join, esxi, dell>>

\* resultCallback(output, error) of one address
ResultCallback ==
    /\ proc = "ping_get_status" /\ pc = "running"
    /\ \E req \in inflight : \E ans \in PingAnswers :
         \E ran \in SshExecuted(req, ssh_command) :
         /\ inflight' = inflight \ {req}
         /\ returned' = returned \cup
                            {[tag |-> req.tag, ans |-> ans, ran |-> ran]}
         /\ IF ans.err # "none"
            THEN /\ failures' = failures \cup checkSshError(ans.err)
                 /\ UNCHANGED table
            ELSE /\ UNCHANGED failures
                 /\ IF ans.average = "none" \/ ans.lost = "none"
                    THEN UNCHANGED table   \* matchLatency[1] throws
                    ELSE table' = Append(table,
                             [id |-> PingRecordId(req.tag),
                              row |-> <<req.tag, ans.average, ans.lost>>,
                              from |-> req.tag])
         /\ IF ans.err = "none" /\ (ans.average = "none" \/ ans.lost = "none")
            THEN UNCHANGED <<count, successes>>  \* the callback has thrown
            ELSE /\ count' = count + 1
                 /\ successes' = IF count + 1 = Len(ipAddresses)
                                 THEN Append(successes, SuccessCall(TRUE, table'))
                                 ELSE successes
    /\ UNCHANGED <<proc, pc, ssh_command, join, esxi, dell>>

----------------------------------------------------------------------------
(* ESXi services driver (examples/http/esxi_services.js) *)

\* the requests of get_status in the order of its promise chain
SoapOps == <<"Login", "CreateContainerView", "Fetch", "RetrieveProperties">>

\* text a selector finds in a SOAP answer ("" when it finds nothing)
SoapTexts == {"", "a1", "b2"}

\* the <service> elements of an answer: key and label
Services ==
    {[key |-> "TSM", label |-> "ESXi Shell"], [key |-> "ntpd", label |-> ""]}
ServiceSeqs == UNION {[1..n -> Services] : n \in 0..MaxServices}

\* what http.post may hand to the callback of sendSoapRequest: an error,
\* no response, or a response with its status code and body; the body is
\* represented by what the selectors of the extractData functions find
SoapAnswers(op) ==
    [kind : {"error", "no response"}, statusCode : {0}, text : {""},
     services : {<<>>}]
      \cup [kind : {"response"}, statusCode : {400, 500}, text : {""},
            services : {<<>>}]
      \cup (IF op = "RetrieveProperties"
            THEN [kind : {"response"}, statusCode : {200}, text : {""},
                  services : ServiceSeqs]
            ELSE [kind : {"response"}, statusCode : {200}, text : SoapTexts,
                  services : {<<>>}])

\* (mutant) the status checks in the other order: 400 is never told apart
SoapOutcomeStatusFirst(ans) ==
    IF ans.kind = "error" THEN "GENERIC_ERROR"
    ELSE IF ans.kind = "no response" THEN "RESOURCE_UNAVAILABLE"
    ELSE IF ans.statusCode # 200 THEN "GENERIC_ERROR"
    ELSE IF ans.statusCode = 400 THEN "AUTHENTICATION_ERROR"
    ELSE "resolve"

\* the if / else if chain of the callback of sendSoapRequest: the error
\* type given to D.failure, or "resolve"
SoapOutcome(ans) ==
    IF ans.kind = "error" THEN "GENERIC_ERROR"
    ELSE IF ans.kind = "no response" THEN "RESOURCE_UNAVAILABLE"
    ELSE IF ans.statusCode = 400 THEN "AUTHENTICATION_ERROR"
    ELSE IF ans.statusCode # 200 THEN "GENERIC_ERROR"
    ELSE "resolve"

\* populateTable of every service of the answer (generateTabelOutput)
generateTabelOutput(tbl, services) ==
    tbl \o [k \in 1..Len(services) |->
              [id |-> services[k].key,
               row |-> IF services[k].label = "" THEN "N/A"
                       ELSE services[k].label,
               from |-> "RetrieveProperties"]]

\* extractData(body): getSessionKey, getContainerIdFromSoap and
\* getHostRefFromSoap give a text, generateTabelOutput gives servicesTable
ExtractData(op, ans) ==
    IF op = "RetrieveProperties" THEN "servicesTable" ELSE ans.text

\* (mutant) fetchContainer with a fixed container id
SoapRequestFixed(op, value) ==
    [tag |-> op, index |-> 0,
     command |-> CASE op = "Login" -> "username password"
                   [] op = "CreateContainerView" -> "ha-folder-root"
                   [] op = "Fetch" -> "a1"
                   [] OTHER -> value]

\* the payloads: login() carries the credentials, createAllHostContainer()
\* takes no argument, fetchContainer(containerId) and
\* retrieveProprieties(hostRef) carry the value they are given
SoapRequest(op, value) ==
    [tag |-> op, index |-> 0,
     command |-> CASE op = "Login" -> "username password"
                   [] op = "CreateContainerView" -> "ha-folder-root"
                   [] OTHER -> value]

\* the handler .then() chains to the promise of a request
ThenOf(op) ==
    CASE op = "Login" -> "CreateContainerView"
      [] op = "CreateContainerView" -> "Fetch"
      [] op = "Fetch" -> "RetrieveProperties"
      [] op = "RetrieveProperties" -> "D.success"

\* get_status(): login() ...
EsxiGetStatus ==
    /\ proc = "esxi_get_status" /\ pc = "idle"
    /\ pc' = "running"
    /\ inflight' = {SoapRequest("Login", "")}
    /\ sent' = <<SoapRequest("Login", "")>>
    /\ UNCHANGED <<proc, successes, failures, returned, table, ssh_command,
                   join, count, resolved, dell>>

\* the callback of D.device.http.post in sendSoapRequest, with the .then()
\* handler that d.resolve(result) runs
SoapCallback ==
    /\ proc = "esxi_get_status" /\ pc = "running"
    /\ \E req \in inflight : \E ans \in SoapAnswers(req.tag) :
         /\ returned' = returned \cup {[tag |-> req.tag, ans |-> ans]}
         /\ IF SoapOutcome(ans) # "resolve"
            THEN /\ failures' = failures \cup {SoapOutcome(ans)}
                 /\ inflight' = inflight \ {req}
                 /\ UNCHANGED <<table, resolved, sent, successes>>
            ELSE /\ UNCHANGED failures
                 /\ table' = IF req.tag = "RetrieveProperties"
                             THEN generateTabelOutput(table, ans.services)
                             ELSE table
                 /\ resolved' = Append(resolved, ExtractData(req.tag, ans))
                 /\ IF ThenOf(req.tag) = "D.success"
                    THEN /\ successes' =
                               Append(successes, SuccessCall(TRUE, table'))
                         /\ inflight' = inflight \ {req}
                         /\ UNCHANGED sent
                    ELSE LET nxt == SoapRequest(ThenOf(req.tag),
                                                ExtractData(req.tag, ans))
                         IN /\ inflight' = (inflight \ {req}) \cup {nxt}
                            /\ sent' = Append(sent, nxt)
                            /\ UNCHANGED successes
    /\ UNCHANGED <<proc, pc, ssh_command, join, count, dell>>

\* validate(): login()
EsxiValidate ==
    /\ proc = "esxi_validate" /\ pc = "idle"
    /\ pc' = "running"
    /\ inflight' = {SoapRequest("Login", "")}
    /\ sent' = <<SoapRequest("Login", "")>>
    /\ UNCHANGED <<proc, successes, failures, returned, table, ssh_command,
                   join, count, resolved, dell>>

\* the handler validate() chains to login(): D.success() when the session
\* key is not empty, nothing otherwise
ValidateThen(sessionKey) ==
    IF sessionKey # "" /\ Len(sessionKey) > 0
    THEN <<SuccessCall(FALSE, NoTable)>>
    ELSE <<>>

\* the callback of D.device.http.post for the login of validate(), with
\* the .then() handler of validate() that d.resolve(result) runs; the
\* .catch() handler never runs: the promise is never rejected and the
\* .then() handler does not throw
ValidateLoginCallback ==
    /\ proc = "esxi_validate" /\ pc = "running"
    /\ \E req \in inflight : \E ans \in SoapAnswers(req.tag) :
         /\ returned' = returned \cup {[tag |-> req.tag, ans |-> ans]}
         /\ inflight' = inflight \ {req}
         /\ IF SoapOutcome(ans) # "resolve"
            THEN /\ failures' = failures \cup {SoapOutcome(ans)}
                 /\ UNCHANGED <<resolved, successes>>
            ELSE /\ UNCHANGED failures
                 /\ resolved' = Append(resolved, ExtractData(req.tag, ans))
                 /\ successes' =
                       successes \o ValidateThen(ExtractData(req.tag, ans))
    /\ pc' = "done"
    /\ UNCHANGED <<proc, table, sent, ssh_command, join, count, dell>>

----------------------------------------------------------------------------
(* Dell PowerVault SAN drives driver                                       *)
(* (examples/http/dell_power_vault_san_drives.js)                          *)
(* The handlers .then() chains to a promise run when it is resolved, in    *)
(* the action of the response that resolves it.  The .catch() handlers of  *)
(* getControllerInfo and getDriveInfo never run: their .then() handlers    *)
(* do not throw and the promises of httpGet are never rejected.            *)

Tokens == {"t1", "t2"}

\* the body of a response: whether JSON.parse accepts it, and of the parsed
\* value what the handlers read: has is Members (Storage), Name and Drives
\* (a controller), Name (a drive); n counts Members or Drives; complete is
\* PhysicalLocation.Placement and Status of a drive
InvalidBody == [json |-> FALSE, has |-> FALSE, n |-> 0, complete |-> FALSE]
DellBodies(tag) ==
    {InvalidBody} \cup
    CASE tag = "login" ->
           [json : {TRUE}, has : {FALSE}, n : {0}, complete : {FALSE}]
      [] tag = "storage" ->
           [json : {TRUE}, has : {FALSE}, n : {0}, complete : {FALSE}]
             \cup [json : {TRUE}, has : {TRUE}, n : 0..MaxControllers,
                   complete : {FALSE}]
      [] tag = "controller" ->
           [json : {TRUE}, has : {FALSE}, n : {0}, complete : {FALSE}]
             \cup [json : {TRUE}, has : {TRUE}, n : 0..MaxDrives,
                   complete : {FALSE}]
      [] tag = "drive" ->
           [json : {TRUE}, has : BOOLEAN, n : {0}, complete : BOOLEAN]

\* what http.post / http.get may hand to process(error, response, body):
\* an error without response, or a response with its headers and status
\* (one response for each way through process, the token present also on
\* a failed command)
DellHeaders ==
    {[token |-> "t1", commandStatus |-> "none", statusCode |-> 200],
     [token |-> "t2", commandStatus |-> "Command failed", statusCode |-> 500],
     [token |-> "none", commandStatus |-> "Command failed", statusCode |-> 200],
     [token |-> "none", commandStatus |-> "Invalid URL", statusCode |-> 200],
     [token |-> "none", commandStatus |-> "none", statusCode |-> 500],
     [token |-> "none", commandStatus |-> "none", statusCode |-> 200]}
DellAnswers(tag) ==
    {[error |-> TRUE, token |-> "none", commandStatus |-> "none",
      statusCode |-> 0, body |-> InvalidBody]}
      \cup {[error |-> FALSE, token |-> h.token,
             commandStatus |-> h.commandStatus, statusCode |-> h.statusCode,
             body |-> b] : h \in DellHeaders, b \in DellBodies(tag)}

\* process(error, response, body): the error types D.failure is called with
ProcessFailures(ans) ==
    IF ans.error THEN {"GENERIC_ERROR"}   \* then response.headers throws
    ELSE IF ans.token # "none" THEN {}
    ELSE IF ans.commandStatus = "Command failed"
         THEN {"AUTHENTICATION_ERROR"}
    ELSE IF ans.commandStatus = "Invalid URL" THEN {"RESOURCE_UNAVAILABLE"}
    ELSE IF ans.statusCode # 200 THEN {"GENERIC_ERROR"}
    ELSE {}

\* (mutant) the token of the first response is kept
ProcessTokenOnce(tok, ans) ==
    IF ~ans.error /\ ans.token # "none" /\ tok = "undefined" THEN ans.token
    ELSE tok

\* process(error, response, body): sessionToken afterwards
ProcessToken(tok, ans) ==
    IF ~ans.error /\ ans.token # "none" THEN ans.token ELSE tok

\* process(error, response, body): whether d.resolve(JSON.parse(body)) is
\* reached and JSON.parse returns
Resolves(ans) == ~ans.error /\ ans.body.json

\* httpGet(url): the request with its 'X-Auth-Token' header (command);
\* recent is history: the token of the most recent response that had one
HttpGet(tag, index, tok, recent) ==
    [tag |-> tag, index |-> index, command |-> tok, recent |-> recent]

\* the promises D.q.all waits for: a controller's is resolved with
\* undefined, or with its drives' values once each drive's is resolved
DriveSettled(dr) == dr \notin {"requested", "unsettled"}
ControllerSettled(ctrl) ==
    \/ ctrl.st = "undefined"
    \/ ctrl.st = "drives" /\ \A d \in 1..Len(ctrl.drives) :
                                  DriveSettled(ctrl.drives[d])

\* D.q.all(promises) of getControllers is resolved
AllSettled(ctrls) ==
    \A c \in 1..Len(ctrls) : ControllerSettled(ctrls[c])

\* the values extractData walks through, in the order of its two forEach:
\* a controller's undefined, or its drives' values
RECURSIVE DataItems(_, _)
DataItems(ctrls, c) ==
    IF c > Len(ctrls) THEN <<>>
    ELSE (IF ctrls[c].st # "drives"
          THEN <<[c |-> c, d |-> 0, kind |-> "undefined"]>>
          ELSE [d \in 1..Len(ctrls[c].drives) |->
                   [c |-> c, d |-> d, kind |-> ctrls[c].drives[d]]])
         \o DataItems(ctrls, c + 1)

\* extractData throws at the first value that is undefined or lacks
\* PhysicalLocation / Status; 0 when it reaches D.success(table)
FirstThrow(items) ==
    IF \E i \in 1..Len(items) : items[i].kind # "full"
    THEN CHOOSE i \in 1..Len(items) :
            /\ items[i].kind # "full"
            /\ \A j \in 1..(i - 1) : items[j].kind = "full"
    ELSE 0

\* the table.insertRecord calls of extractData; the record id stands for
\* sanitize(controllerName + " " + name)
ExtractRecords(items) ==
    LET last == IF FirstThrow(items) = 0 THEN Len(items)
                ELSE FirstThrow(items) - 1
    IN [k \in 1..last |->
           [id |-> <<items[k].c, items[k].d>>, row |-> "drive",
            from |-> <<items[k].c, items[k].d>>]]

\* the handler of login().then(getControllers).then(...) with the .catch()
\* after it: extractData in get_status, the length test in validate;
\* defined is FALSE when getControllers is resolved with undefined
FinalHandler(fails, defined, ctrls) ==
    /\ pc' = "done"
    /\ IF proc = "dell_validate"
       THEN /\ UNCHANGED table
            /\ IF defined /\ Len(ctrls) > 0
               THEN /\ successes' =
                          Append(successes, SuccessCall(FALSE, NoTable))
                    /\ failures' = failures \cup fails
               ELSE /\ UNCHANGED successes
                    /\ failures' = failures \cup fails \cup {"PARSING_ERROR"}
       ELSE LET items == DataItems(ctrls, 1)
                throws == ~defined \/ FirstThrow(items) # 0
            IN /\ table' = IF defined THEN table \o ExtractRecords(items)
                           ELSE table
               /\ IF throws
                  THEN /\ UNCHANGED successes
                       /\ failures' = failures \cup fails \cup {"GENERIC_ERROR"}
                  ELSE /\ successes' =
                             Append(successes, SuccessCall(TRUE, table'))
                       /\ failures' = failures \cup fails

\* a response of the fan-out has been processed: the join of D.q.all
AfterFanOut(fails, ctrls) ==
    /\ controllers' = ctrls
    /\ IF AllSettled(ctrls)
       THEN FinalHandler(fails, TRUE, ctrls)
       ELSE /\ failures' = failures \cup fails
            /\ UNCHANGED <<pc, table, successes>>

\* the drives the controllers answered so far have listed
RECURSIVE DrivesListed(_, _)
DrivesListed(ctrls, c) ==
    IF c > Len(ctrls) THEN 0
    ELSE Len(ctrls[c].drives) + DrivesListed(ctrls, c + 1)

\* (mutant) getDriveInfo without its test of drive.Name
DriveValueUnchecked(ans) ==
    IF ~Resolves(ans) THEN "unsettled"
    ELSE IF ans.body.complete THEN "full"
    ELSE "partial"

\* what the promise of getDriveInfo is resolved with: undefined for a
\* drive without Name, else { controllerName, drive } with or without the
\* fields extractData reads; or the promise stays pending
DriveValue(ans) ==
    IF ~Resolves(ans) THEN "unsettled"
    ELSE IF ~ans.body.has THEN "undefined"
    ELSE IF ans.body.complete THEN "full"
    ELSE "partial"

\* history: the request answered and what its answer held
Answered(req, ans) ==
    [tag |-> req.tag, index |-> req.index, parsed |-> Resolves(ans),
     has |-> ans.body.has, n |-> ans.body.n]

\* validate() and get_status(): login()
DellLogin ==
    /\ proc \in {"dell_get_status", "dell_validate"} /\ pc = "idle"
    /\ pc' = "login"
    /\ inflight' = {HttpGet("login", <<>>, "none", "undefined")}
    /\ UNCHANGED <<proc, successes, failures, returned, table, ssh_command,
                   join, count, esxi, dell>>

\* the login response, then getControllers(): httpGet("/redfish/v1/Storage")
DellLoginResponse ==
    /\ pc = "login"
    /\ \E req \in inflight : \E ans \in DellAnswers("login") :
         /\ returned' = returned \cup {Answered(req, ans)}
         /\ sessionToken' = ProcessToken(sessionToken, ans)
         /\ recentToken' = IF ~ans.error /\ ans.token # "none"
                           THEN ans.token ELSE recentToken
         /\ failures' = failures \cup ProcessFailures(ans)
         /\ IF Resolves(ans)
            THEN /\ pc' = "storage"
                 /\ inflight' = {HttpGet("storage", <<>>, sessionToken',
                                         recentToken')}
            ELSE /\ pc' = "unsettled"
                 /\ inflight' = {}
    /\ UNCHANGED <<proc, successes, table, ssh_command, join, count, esxi,
                   controllers>>

\* the /redfish/v1/Storage response, then the handler of getControllers
DellStorageResponse ==
    /\ pc = "storage"
    /\ \E req \in inflight : \E ans \in DellAnswers("storage") :
         /\ req.tag = "storage"
         /\ returned' = returned \cup {Answered(req, ans)}
         /\ sessionToken' = ProcessToken(sessionToken, ans)
         /\ recentToken' = IF ~ans.error /\ ans.token # "none"
                           THEN ans.token ELSE recentToken
         /\ IF ~Resolves(ans)
            THEN /\ pc' = "unsettled"
                 /\ inflight' = {}
                 /\ failures' = failures \cup ProcessFailures(ans)
                 /\ UNCHANGED <<controllers, table, successes>>
            ELSE IF ~ans.body.has
            THEN /\ inflight' = {}
                 /\ UNCHANGED controllers
                 /\ FinalHandler(ProcessFailures(ans), FALSE, <<>>)
            ELSE /\ inflight' =
                       {HttpGet("controller", <<c>>, sessionToken',
                                recentToken') : c \in 1..ans.body.n}
                 /\ AfterFanOut(ProcessFailures(ans),
                                [c \in 1..ans.body.n |->
                                    [st |-> "requested", drives |-> <<>>]])
    /\ UNCHANGED <<proc, ssh_command, join, count, esxi>>

\* the response for one controller, then the handler of getControllerInfo
DellControllerResponse ==
    /\ pc = "storage"
    /\ \E req \in inflight : \E ans \in DellAnswers("controller") :
         /\ req.tag = "controller"
         /\ DrivesListed(controllers, 1) + ans.body.n <= MaxDrives
         /\ returned' = returned \cup {Answered(req, ans)}
         /\ sessionToken' = ProcessToken(sessionToken, ans)
         /\ recentToken' = IF ~ans.error /\ ans.token # "none"
                           THEN ans.token ELSE recentToken
         /\ LET c == req.index[1] IN
            IF ~Resolves(ans)
            THEN /\ inflight' = inflight \ {req}
                 /\ AfterFanOut(ProcessFailures(ans),
                        [controllers EXCEPT ![c].st = "unsettled"])
            ELSE IF ~ans.body.has
            THEN /\ inflight' = inflight \ {req}
                 /\ AfterFanOut(ProcessFailures(ans),
                        [controllers EXCEPT ![c].st = "undefined"])
            ELSE /\ inflight' = (inflight \ {req}) \cup
                       {HttpGet("drive", <<c, d>>, sessionToken',
                                recentToken') : d \in 1..ans.body.n}
                 /\ AfterFanOut(ProcessFailures(ans),
                        [controllers EXCEPT ![c] =
                            [st |-> "drives",
                             drives |-> [d \in 1..ans.body.n |-> "requested"]]])
    /\ UNCHANGED <<proc, ssh_command, join, count, esxi>>

\* the response for one drive, then the handler of getDriveInfo
DellDriveResponse ==
    /\ pc = "storage"
    /\ \E req \in inflight : \E ans \in DellAnswers("drive") :
         /\ req.tag = "drive"
         /\ returned' = returned \cup {Answered(req, ans)}
         /\ sessionToken' = ProcessToken(sessionToken, ans)
         /\ recentToken' = IF ~ans.error /\ ans.token # "none"
                           THEN ans.token ELSE recentToken
         /\ inflight' = inflight \ {req}
         /\ LET c == req.index[1]
                d == req.index[2]
                value == DriveValue(ans)
            IN AfterFanOut(ProcessFailures(ans),
                   [controllers EXCEPT ![c].drives[d] = value])
    /\ UNCHANGED <<proc, ssh_command, join, count, esxi>>

----------------------------------------------------------------------------
Procs == {"execute_all", "route_get_status", "route_validate",
          "ping_get_status", "esxi_get_status", "esxi_validate"}
DellProcs == {"dell_get_status", "dell_validate"}

Start ==
    /\ pc = "idle"
    /\ successes = <<>>
    /\ failures = {}
    /\ inflight = {}
    /\ returned = {}
    /\ table = <<>>
    /\ ssh_command = "undefined"
    /\ arrayFn = <<>>
    /\ length = 0
    /\ results = <<>>
    /\ finished = 0
    /\ loopIdx = 1
    /\ waiting = {}
    /\ joinCalls = 0
    /\ count = 0
    /\ sent = <<>>
    /\ resolved = <<>>
    /\ sessionToken = "undefined"
    /\ recentToken = "undefined"
    /\ controllers = <<>>

Next ==
    \/ ExecuteAll
    \/ ForEachFn
    \/ ForEachEnd
    \/ FnCompletes
    \/ RouteGetStatus
    \/ RouteValidate
    \/ ExecCommandCallback
    \/ PingGetStatus
    \/ ResultCallback
    \/ EsxiGetStatus
    \/ SoapCallback
    \/ EsxiValidate
    \/ ValidateLoginCallback

Init == proc \in Procs /\ Start

Spec == Init /\ [][Next]_vars

\* the runs of the PowerVault driver
DellInit == proc \in DellProcs /\ Start

DellNext ==
    \/ DellLogin
    \/ DellLoginResponse
    \/ DellStorageResponse
    \/ DellControllerResponse
    \/ DellDriveResponse

DellSpec == DellInit /\ [][DellNext]_vars

----------------------------------------------------------------------------
(* Claims *)

\* the functions of arrayFn whose completion callback has been invoked
Completed == {i \in 1..Len(arrayFn) : i < loopIdx /\ i \notin waiting}
AllCompleted == pc # "idle" /\ Completed = 1..Len(arrayFn)

\* C1: execute_all with N >= 0 functions that each complete exactly once,
\* in any order of completion: the final callback is invoked exactly once,
\* namely when the last function completes (for N = 0 at once), and never
\* while a function of arrayFn has not completed.
C1_JoinExactlyOnce ==
    proc = "execute_all" =>
        /\ joinCalls <= 1
        /\ joinCalls = 1 <=> AllCompleted

C1_Witness ==
    /\ proc = "execute_all" /\ pc = "running"
    /\ length >= 2 /\ joinCalls = 1
    /\ \E i \in 1..length : arrayFn[i] = "async"
    /\ \E i \in 1..length : arrayFn[i] = "sync"

\* the answer the SSH callback of a route command received, if it has
RouteReturned(version) == {r \in returned : r.tag = version}
BothReturned == \A v \in {"ip_v4", "ip_v6"} : RouteReturned(v) # {}
BothDeliveredOutput ==
    \A v \in {"ip_v4", "ip_v6"} : \E r \in RouteReturned(v) : r.ans.hasOut

\* the records a command's lines make, in order
RowsFrom(tbl, version) == SelectSeq(tbl, LAMBDA rec : rec.from = version)

\* D.success(table) comes only after both commands returned with all of
\* their lines in the table
C2_SuccessAfterBoth ==
    NumSuccess >= 1 =>
        /\ BothReturned /\ inflight = {}
        /\ successes[1].withTable /\ successes[1].rows = table
        /\ \A v \in {"ip_v4", "ip_v6"} : \A r \in RouteReturned(v) :
              /\ r.ans.hasOut
              /\ Len(RowsFrom(table, v)) = Len(r.ans.lines)
              /\ \A k \in 1..Len(r.ans.lines) :
                    /\ RowsFrom(table, v)[k].row = r.ans.lines[k]
                    /\ Len(RowsFrom(table, v)[k].id) >= 6
                    /\ SubSeq(RowsFrom(table, v)[k].id, 1, 6) = v \o ">"

\* a row of one command never has the record id of a row of the other
C2_NoOverwrite ==
    \A i, j \in 1..Len(table) :
        table[i].from # table[j].from => table[i].id # table[j].id

\* C2 (as amended): get_status of the route driver calls D.success(table)
\* at most once per run, only after both netstat commands have returned
\* and all their lines are in the table, and exactly once as soon as both
\* SSH callbacks have been handed output text, in either order; record ids
\* of the two commands start with 'ip_v4>' and 'ip_v6>', so they never
\* coincide.
C2_Amended ==
    proc = "route_get_status" =>
        /\ NumSuccess <= 1
        /\ C2_SuccessAfterBoth
        /\ BothDeliveredOutput => NumSuccess = 1
        /\ C2_NoOverwrite

\* C2 as stated: D.success(table) exactly once per run, that is, once both
\* commands have returned.
C2_Original ==
    proc = "route_get_status" =>
        /\ NumSuccess <= 1
        /\ C2_SuccessAfterBoth
        /\ BothReturned => NumSuccess = 1
        /\ C2_NoOverwrite

C2_Witness ==
    /\ proc = "route_get_status" /\ NumSuccess = 1
    /\ \E i, j \in 1..Len(table) :
          /\ table[i].from = "ip_v6" /\ table[j].from = "ip_v4" /\ i < j
          /\ table[i].row = table[j].row

\* C7: when sendSSHCommand delivers an error for a command, D.failure is
\* called and the command's output is not processed: no record is inserted
\* from it, its completion is not counted towards the join, and the run
\* never has a D.success call.
C7_ErrorStopsProcessing ==
    proc \in {"route_get_status", "route_validate"} =>
        \A r \in returned : r.ans.err =>
            /\ Failed
            /\ RowsFrom(table, r.tag) = <<>>
            /\ finished <= Cardinality({q \in returned : ~q.ans.err})
            /\ NumSuccess = 0

PingReturned == {r.tag : r \in returned}
AllPingsReturned == PingReturned = {ipAddresses[i] : i \in 1..Len(ipAddresses)}

\* C3: get_status of the Windows IP latency driver: when every ping command
\* returns without error, D.success(tableColumns) is called exactly once,
\* only after the result callbacks of all configured addresses have run,
\* and the table then holds exactly one record per configured address,
\* whose 'IP Address' column is the address its record id was derived from.
C3_AllPingsThenSuccess ==
    proc = "ping_get_status" =>
        /\ NumSuccess <= 1
        /\ NumSuccess = 1 => AllPingsReturned
        /\ (AllPingsReturned /\ \A r \in returned : r.ans.err = "none") =>
              /\ NumSuccess = 1
              /\ \A i \in 1..Len(ipAddresses) :
                    Cardinality({k \in 1..Len(successes[1].rows) :
                        /\ successes[1].rows[k].id = PingRecordId(ipAddresses[i])
                        /\ successes[1].rows[k].row[1] = ipAddresses[i]}) = 1
              /\ Len(successes[1].rows) = Len(ipAddresses)

\* C6: if the SSH callback of at least one ping command receives an error,
\* the run reports through D.failure and D.success is never called in it.
C6_PingErrorNeverSuccess ==
    proc = "ping_get_status" =>
        ((\E r \in returned : r.ans.err # "none") =>
            Failed /\ NumSuccess = 0)

\* the answer a SOAP request of the chain has received, and its place
SoapAnswered(op) == \E r \in returned : r.tag = op
SoapAnswer(op) == (CHOOSE r \in returned : r.tag = op).ans
Answered200(op) ==
    /\ SoapAnswered(op)
    /\ SoapAnswer(op).kind = "response" /\ SoapAnswer(op).statusCode = 200
SoapPos(op) == CHOOSE i \in 1..Len(SoapOps) : SoapOps[i] = op

\* the requests go out in the order of the chain, each after the answer
\* 200 to the one before
C4_InOrder ==
    /\ Len(sent) <= Len(SoapOps)
    /\ \A i \in 1..Len(sent) : sent[i].tag = SoapOps[i]
    /\ \A i \in 2..Len(sent) : Answered200(SoapOps[i - 1])
    /\ \A i \in 1..Len(SoapOps) : SoapAnswered(SoapOps[i]) => Len(sent) >= i

\* D.success at most once, after the four answers, with the services of
\* the RetrieveProperties answer in the table
C4_SuccessLast ==
    /\ NumSuccess <= 1
    /\ NumSuccess = 1 =>
          /\ \A i \in 1..Len(SoapOps) : Answered200(SoapOps[i])
          /\ inflight = {}
          /\ successes[1].rows = table
          /\ Len(table) = Len(SoapAnswer("RetrieveProperties").services)
          /\ \A k \in 1..Len(table) :
                table[k].id = SoapAnswer("RetrieveProperties").services[k].key

\* C4 (as amended): get_status of the ESXi driver issues the four SOAP
\* requests strictly in the order Login, CreateContainerView, Fetch,
\* RetrieveProperties, each only after the previous one was answered with
\* status 200; Fetch carries the container id extracted from the
\* CreateContainerView answer and RetrieveProperties the host reference
\* extracted from the Fetch answer, while CreateContainerView is the same
\* request whatever the Login answer held; D.success is called at most
\* once, only after the RetrieveProperties answer has been parsed into the
\* services table, never before all four requests have completed.
C4_Amended ==
    proc = "esxi_get_status" =>
        /\ C4_InOrder
        /\ C4_SuccessLast
        /\ Len(sent) >= 2 => sent[2].command = "ha-folder-root"
        /\ \A i \in 3..Len(sent) :
              sent[i].command = SoapAnswer(SoapOps[i - 1]).text

\* C4 as stated: every request after Login uses the value extracted from
\* the answer before it.
C4_Original ==
    proc = "esxi_get_status" =>
        /\ C4_InOrder
        /\ C4_SuccessLast
        /\ \A i \in 2..Len(sent) :
              sent[i].command = SoapAnswer(SoapOps[i - 1]).text

C4_Witness ==
    /\ proc = "esxi_get_status" /\ NumSuccess = 1 /\ Len(table) = 2
    /\ sent[3].command = "b2" /\ sent[4].command = "a1"
    /\ SoapAnswer("Login").text = "b2"

\* the chain has stopped at the answer to the request at place pos, with
\* D.failure(type) and the promise of that request left pending
C8_Stopped(pos, type) ==
    /\ failures = {type}
    /\ Len(sent) = pos /\ Len(resolved) = pos - 1
    /\ inflight = {} /\ NumSuccess = 0

\* C8: sendSoapRequest, for every response, does exactly one of: transport
\* error, D.failure(GENERIC_ERROR); missing response,
\* D.failure(RESOURCE_UNAVAILABLE); status 400,
\* D.failure(AUTHENTICATION_ERROR); another status than 200,
\* D.failure(GENERIC_ERROR); status 200, the promise is resolved with the
\* extracted value.  In the four failure cases the promise stays pending,
\* no later request of the chain is sent and D.success is not called.
C8_OneOutcomePerResponse ==
    proc = "esxi_get_status" =>
        /\ \A r \in returned :
             LET pos == SoapPos(r.tag) IN
             /\ r.ans.kind = "error" => C8_Stopped(pos, "GENERIC_ERROR")
             /\ r.ans.kind = "no response" =>
                   C8_Stopped(pos, "RESOURCE_UNAVAILABLE")
             /\ (r.ans.kind = "response" /\ r.ans.statusCode = 400) =>
                   C8_Stopped(pos, "AUTHENTICATION_ERROR")
             /\ (r.ans.kind = "response" /\ r.ans.statusCode \notin {200, 400})
                   => C8_Stopped(pos, "GENERIC_ERROR")
             /\ (r.ans.kind = "response" /\ r.ans.statusCode = 200) =>
                   /\ Len(resolved) >= pos
                   /\ resolved[pos] = IF r.tag = "RetrieveProperties"
                                      THEN "servicesTable" ELSE r.ans.text
        /\ (\A r \in returned : Answered200(r.tag)) => failures = {}

C8_Witness ==
    /\ proc = "esxi_get_status"
    /\ failures = {"AUTHENTICATION_ERROR"}
    /\ Len(sent) = 3 /\ resolved = <<"a1", "b2">>

\* the answers of the PowerVault device so far
DellAnswered(tag, index) ==
    {r \in returned : r.tag = tag /\ r.index = index}
\* the drives whose response was parsed and carried a Name
NamedDrives ==
    {r.index : r \in {q \in returned : q.tag = "drive" /\ q.parsed /\ q.has}}

C9_TokenOfMostRecentResponse ==
    /\ pc \in {"idle", "login"} => \A req \in inflight : req.tag = "login"
    /\ DellAnswered("login", <<>>) = {} =>
          \A req \in inflight : req.tag = "login"
    /\ \A req \in inflight : req.tag # "login" => req.command = req.recent
    /\ sessionToken = recentToken

C9_Witness ==
    \E r1, r2 \in inflight :
        /\ r1.tag = "drive" /\ r1.command = "t2"
        /\ r2.tag = "controller" /\ r2.command = "t1"

\* C10: in every run of validate or get_status of the PowerVault driver
\* D.success and D.failure exclude each other: once processResponse has
\* called D.failure for a response, the run never has a D.success call.
C10_FailureExcludesSuccess ==
    proc \in DellProcs => ~(Failed /\ NumSuccess >= 1)

\* C11: in validate of the ESXi driver, once the login request has been
\* answered and the handlers of the answer have run (nothing is in flight
\* and no handler is left to run), D.success or D.failure has been called,
\* for every answer, a status-200 answer without session key included.
C11_ValidateReportsOutcome ==
    (proc = "esxi_validate" /\ SoapAnswered("Login") /\ inflight = {})
        => (NumSuccess >= 1 \/ Failed)

\* the command a request of an SSH driver was issued for
IssuedFor(tag) ==
    IF proc = "ping_get_status" THEN PingCommand(tag)
    ELSE IF tag = "validate" THEN validate_cmd
    ELSE RouteCmd(tag)

=============================================================================
